---- MODULE Spec2Model ----
(***************************************************************************)
(* Model of the Bitcoin transaction wire codec of src/src/lib.rs:          *)
(* CompactSize, OutPoint, Script, TransactionInput and BitcoinTransaction, *)
(* each with to_bytes and from_bytes.                                      *)
(*                                                                         *)
(* Integers keep their Rust widths.  A u16 is a number below 2^16, a u32   *)
(* is a pair and a u64 (and a 64-bit usize) a 4-tuple of 16-bit limbs,     *)
(* least significant limb first, so that values up to 2^64-1 and the       *)
(* overflow of usize additions are represented exactly.  Byte buffers are  *)
(* sequences of numbers in 0..255, indexed from 1 (Rust's bytes[i] is      *)
(* bytes[i+1] here).  The target is a 64-bit one (usize = u64).            *)
(***************************************************************************)
EXTENDS Integers, Sequences, FiniteSets, TLC

\* ------------------------------------------------------------------ bounds

\* Largest number of inputs of a generated transaction.
MaxInputs == 2
\* Longest raw (not encoded from a value) buffer handed to a decoder.
MaxRawLen == 10
\* Longest run of trailing bytes appended to an encoding.
MaxTail == 2

\* -------------------------------------------------------- program constants

\* [u8; 32] of Txid.
TxidLen == 32
\* The fixed width of an OutPoint on the wire.
OutPointLen == 36

\* ------------------------------------------------------- fixed-width words

\* n (a small natural number, a buffer length or index) as a u64 / usize.
U64FromNat(n) == <<n % 65536, (n \div 65536) % 65536, 0, 0>>

\* A u64 / usize known to be small, as a natural number.
U64ToNat(x) == x[1] + 65536 * x[2]

U64Less(a, b) ==
    \E k \in 1..4 : /\ a[k] < b[k]
                    /\ \A j \in (k + 1)..4 : a[j] = b[j]

U64LessEq(a, b) == a = b \/ U64Less(a, b)

\* The literals of the match arms of CompactSize::to_bytes.
U64_252 == <<252, 0, 0, 0>>
U64_253 == <<253, 0, 0, 0>>
U64_65535 == <<65535, 0, 0, 0>>
U64_65536 == <<0, 1, 0, 0>>
U64_4294967295 == <<65535, 65535, 0, 0>>

\* `x as u8`, `x as u16`, `x as u32` of a u64: truncation.
as_u8(x) == x[1] % 256
as_u16(x) == x[1]
as_u32(x) == <<x[1], x[2]>>
\* `x as u64` of a u8, a u16, a u32: zero extension.
u8_as_u64(b) == <<b, 0, 0, 0>>
u16_as_u64(x) == <<x, 0, 0, 0>>
u32_as_u64(x) == <<x[1], x[2], 0, 0>>
\* `x as usize` of a u64 on a 64-bit target.
as_usize(x) == x

u16_to_le_bytes(x) == <<x % 256, x \div 256>>
u32_to_le_bytes(x) == u16_to_le_bytes(x[1]) \o u16_to_le_bytes(x[2])
u64_to_le_bytes(x) ==
    u16_to_le_bytes(x[1]) \o u16_to_le_bytes(x[2])
        \o u16_to_le_bytes(x[3]) \o u16_to_le_bytes(x[4])

u16_from_le_bytes(b) == b[1] + 256 * b[2]
u32_from_le_bytes(b) ==
    <<u16_from_le_bytes(<<b[1], b[2]>>), u16_from_le_bytes(<<b[3], b[4]>>)>>
u64_from_le_bytes(b) ==
    << u16_from_le_bytes(<<b[1], b[2]>>), u16_from_le_bytes(<<b[3], b[4]>>),
       u16_from_le_bytes(<<b[5], b[6]>>), u16_from_le_bytes(<<b[7], b[8]>>) >>

\* a + b in usize: the wrapped sum and whether it overflowed.
usize_add(a, b) ==
    LET s1 == a[1] + b[1]
        s2 == a[2] + b[2] + (s1 \div 65536)
        s3 == a[3] + b[3] + (s2 \div 65536)
        s4 == a[4] + b[4] + (s3 \div 65536)
    IN  [ value |-> <<s1 % 65536, s2 % 65536, s3 % 65536, s4 % 65536>>,
          overflow |-> s4 \div 65536 > 0 ]

\* &bytes[from..] and &bytes[from..to] (0-based, to exclusive).
SliceFrom(bytes, from) == SubSeq(bytes, from + 1, Len(bytes))
Slice(bytes, from, to) == SubSeq(bytes, from + 1, to)

\* ----------------------------------------------------------------- results

\* Result<(T, usize), BitcoinError>, and a panic of the call.
Ok(v, n) == [tag |-> "Ok", value |-> v, consumed |-> n]
Err(e) == [tag |-> "Err", error |-> e]
Panic(m) == [tag |-> "Panic", message |-> m]
InsufficientBytes == "InsufficientBytes"

VARIABLES
    overflow_checks,  \* the build: whether integer overflow panics (debug) or wraps
    kind,             \* the type whose codec is exercised
    value,            \* the in-memory value given to to_bytes
    encoded,          \* the Vec<u8> to_bytes returned
    bytes,            \* the buffer given to from_bytes
    phase,            \* value | buffer | edited | parsing | done
    frame,            \* the locals of BitcoinTransaction::from_bytes
    result            \* what from_bytes returned

vars == <<overflow_checks, kind, value, encoded, bytes, phase, frame, result>>

\* ------------------------------------------------------------- CompactSize

CompactSize_new(v) == [value |-> v]

\* CompactSize::to_bytes with its first arm written 0..=253.
CompactSize_to_bytes_OffByOne(self) ==
    CASE U64LessEq(self.value, U64_253) -> <<as_u8(self.value)>>
      [] U64Less(U64_253, self.value) /\ U64LessEq(self.value, U64_65535) ->
            <<253>> \o u16_to_le_bytes(as_u16(self.value))
      [] U64LessEq(U64_65536, self.value) /\ U64LessEq(self.value, U64_4294967295) ->
            <<254>> \o u32_to_le_bytes(as_u32(self.value))
      [] OTHER -> <<255>> \o u64_to_le_bytes(self.value)

CompactSize_to_bytes(self) ==
    CASE U64LessEq(self.value, U64_252) -> <<as_u8(self.value)>>
      [] U64LessEq(U64_253, self.value) /\ U64LessEq(self.value, U64_65535) ->
            <<253>> \o u16_to_le_bytes(as_u16(self.value))
      [] U64LessEq(U64_65536, self.value) /\ U64LessEq(self.value, U64_4294967295) ->
            <<254>> \o u32_to_le_bytes(as_u32(self.value))
      [] OTHER -> <<255>> \o u64_to_le_bytes(self.value)

\* CompactSize::from_bytes rejecting the encodings to_bytes would not emit.
CompactSize_from_bytes_Strict(b) ==
    IF Len(b) = 0 THEN Err(InsufficientBytes)
    ELSE CASE b[1] <= 252 -> Ok(CompactSize_new(u8_as_u64(b[1])), 1)
           [] b[1] = 253 ->
                IF Len(b) < 3 THEN Err(InsufficientBytes)
                ELSE IF u16_from_le_bytes(<<b[2], b[3]>>) < 253 THEN Err("InvalidFormat")
                ELSE Ok(CompactSize_new(u16_as_u64(u16_from_le_bytes(<<b[2], b[3]>>))), 3)
           [] b[1] = 254 ->
                IF Len(b) < 5 THEN Err(InsufficientBytes)
                ELSE IF u32_from_le_bytes(<<b[2], b[3], b[4], b[5]>>)[2] = 0
                  THEN Err("InvalidFormat")
                ELSE Ok(CompactSize_new(
                            u32_as_u64(u32_from_le_bytes(<<b[2], b[3], b[4], b[5]>>))), 5)
           [] b[1] = 255 ->
                IF Len(b) < 9 THEN Err(InsufficientBytes)
                ELSE IF b[6] = 0 /\ b[7] = 0 /\ b[8] = 0 /\ b[9] = 0
                  THEN Err("InvalidFormat")
                ELSE Ok(CompactSize_new(u64_from_le_bytes(
                            <<b[2], b[3], b[4], b[5], b[6], b[7], b[8], b[9]>>)), 9)

CompactSize_from_bytes(b) ==
    IF Len(b) = 0 THEN Err(InsufficientBytes)
    ELSE CASE b[1] <= 252 -> Ok(CompactSize_new(u8_as_u64(b[1])), 1)
           [] b[1] = 253 ->
                IF Len(b) < 3 THEN Err(InsufficientBytes)
                ELSE Ok(CompactSize_new(u16_as_u64(u16_from_le_bytes(<<b[2], b[3]>>))), 3)
           [] b[1] = 254 ->
                IF Len(b) < 5 THEN Err(InsufficientBytes)
                ELSE Ok(CompactSize_new(
                            u32_as_u64(u32_from_le_bytes(<<b[2], b[3], b[4], b[5]>>))), 5)
           [] b[1] = 255 ->
                IF Len(b) < 9 THEN Err(InsufficientBytes)
                ELSE Ok(CompactSize_new(u64_from_le_bytes(
                            <<b[2], b[3], b[4], b[5], b[6], b[7], b[8], b[9]>>)), 9)

\* ---------------------------------------------------------------- OutPoint

OutPoint_new(txid, vout) == [txid |-> txid, vout |-> vout]

OutPoint_to_bytes(self) == self.txid \o u32_to_le_bytes(self.vout)

OutPoint_from_bytes(b) ==
    IF Len(b) < OutPointLen THEN Err(InsufficientBytes)
    ELSE Ok(OutPoint_new(Slice(b, 0, TxidLen),
                         u32_from_le_bytes(<<b[33], b[34], b[35], b[36]>>)),
            OutPointLen)

\* ------------------------------------------------------------------ Script

Script_new(b) == [bytes |-> b]

\* Script::to_bytes with a fixed 0xFD length prefix.
Script_to_bytes_WidePrefix(self) ==
    (<<253>> \o u16_to_le_bytes(as_u16(U64FromNat(Len(self.bytes))))) \o self.bytes

Script_to_bytes(self) ==
    CompactSize_to_bytes(CompactSize_new(U64FromNat(Len(self.bytes)))) \o self.bytes

\* length_bytes + script_length is a usize addition: with overflow checks it
\* panics on overflow, without them it wraps, and the slice
\* bytes[length_bytes..length_bytes + script_length] then panics when its end
\* lies before its start.
Script_from_bytes(b) ==
    LET r == CompactSize_from_bytes(b) IN
    IF r.tag # "Ok" THEN r
    ELSE
      LET length_bytes == r.consumed
          script_length == as_usize(r.value.value)
          sum == usize_add(U64FromNat(length_bytes), script_length)
      IN  IF sum.overflow /\ overflow_checks
            THEN Panic("attempt to add with overflow")
          ELSE IF U64Less(U64FromNat(Len(b)), sum.value)
            THEN Err(InsufficientBytes)
          ELSE IF U64Less(sum.value, U64FromNat(length_bytes))
            THEN Panic("slice index starts after its end")
          ELSE Ok(Script_new(Slice(b, length_bytes, U64ToNat(sum.value))),
                  U64ToNat(sum.value))

\* -------------------------------------------------------- TransactionInput

TransactionInput_new(previous_output, script_sig, sequence) ==
    [previous_output |-> previous_output, script_sig |-> script_sig,
     sequence |-> sequence]

\* TransactionInput::to_bytes writing the sequence before the script.
TransactionInput_to_bytes_SequenceFirst(self) ==
    OutPoint_to_bytes(self.previous_output)
        \o u32_to_le_bytes(self.sequence)
        \o Script_to_bytes(self.script_sig)

TransactionInput_to_bytes(self) ==
    OutPoint_to_bytes(self.previous_output)
        \o Script_to_bytes(self.script_sig)
        \o u32_to_le_bytes(self.sequence)

TransactionInput_from_bytes(b) ==
    LET o == OutPoint_from_bytes(b) IN
    IF o.tag # "Ok" THEN o
    ELSE
      LET consumed1 == 0 + o.consumed
          s == Script_from_bytes(SliceFrom(b, consumed1))
      IN  IF s.tag # "Ok" THEN s
          ELSE
            LET consumed2 == consumed1 + s.consumed IN
            IF Len(b) < consumed2 + 4 THEN Err(InsufficientBytes)
            ELSE Ok(TransactionInput_new(
                        o.value, s.value,
                        u32_from_le_bytes(<<b[consumed2 + 1], b[consumed2 + 2],
                                            b[consumed2 + 3], b[consumed2 + 4]>>)),
                    consumed2 + 4)

\* ------------------------------------------------------ BitcoinTransaction

BitcoinTransaction_new(version, inputs, lock_time) ==
    [version |-> version, inputs |-> inputs, lock_time |-> lock_time]

\* for input in &self.inputs { bytes.extend_from_slice(&input.to_bytes()) }
RECURSIVE InputsToBytes(_)
InputsToBytes(inputs) ==
    IF inputs = <<>> THEN <<>>
    ELSE TransactionInput_to_bytes(Head(inputs)) \o InputsToBytes(Tail(inputs))

BitcoinTransaction_to_bytes(self) ==
    u32_to_le_bytes(self.version)
        \o CompactSize_to_bytes(CompactSize_new(U64FromNat(Len(self.inputs))))
        \o InputsToBytes(self.inputs)
        \o u32_to_le_bytes(self.lock_time)

NoResult == [tag |-> "None"]

\* The locals of BitcoinTransaction::from_bytes on entry; i counts the
\* iterations of `for _ in 0..input_count.value` already taken.
TxEntry ==
    [ pc |-> "version", consumed |-> 0, version |-> <<0, 0>>,
      input_count |-> CompactSize_new(U64FromNat(0)), i |-> 0,
      inputs |-> <<>>, ret |-> NoResult ]

TxIdle == [TxEntry EXCEPT !.pc = "idle"]

TxReturn(f, r) == [f EXCEPT !.pc = "return", !.ret = r]

\* Parse version.
TxParseVersion(b, f) ==
    IF Len(b) < 4 THEN TxReturn(f, Err(InsufficientBytes))
    ELSE [f EXCEPT !.version = u32_from_le_bytes(<<b[1], b[2], b[3], b[4]>>),
                   !.consumed = f.consumed + 4,
                   !.pc = "count"]

\* Parse input count.
TxParseCount(b, f) ==
    LET r == CompactSize_from_bytes(SliceFrom(b, f.consumed)) IN
    IF r.tag # "Ok" THEN TxReturn(f, r)
    ELSE [f EXCEPT !.input_count = r.value,
                   !.consumed = f.consumed + r.consumed,
                   !.pc = "inputs"]

\* The input loop written 0..=input_count.value.
TxParseInput_OneMore(b, f) ==
    IF ~U64LessEq(U64FromNat(f.i), f.input_count.value)
      THEN [f EXCEPT !.pc = "lock_time"]
    ELSE
      LET r == TransactionInput_from_bytes(SliceFrom(b, f.consumed)) IN
      IF r.tag # "Ok" THEN TxReturn(f, r)
      ELSE [f EXCEPT !.inputs = Append(f.inputs, r.value),
                     !.consumed = f.consumed + r.consumed,
                     !.i = f.i + 1]

\* One turn of the input loop: its test, and its body when the test passes.
TxParseInput(b, f) ==
    IF ~U64Less(U64FromNat(f.i), f.input_count.value)
      THEN [f EXCEPT !.pc = "lock_time"]
    ELSE
      LET r == TransactionInput_from_bytes(SliceFrom(b, f.consumed)) IN
      IF r.tag # "Ok" THEN TxReturn(f, r)
      ELSE [f EXCEPT !.inputs = Append(f.inputs, r.value),
                     !.consumed = f.consumed + r.consumed,
                     !.i = f.i + 1]

\* The buffer required to end with the lock time.
TxParseLockTime_ExactLength(b, f) ==
    IF Len(b) # f.consumed + 4 THEN TxReturn(f, Err(InsufficientBytes))
    ELSE TxReturn(f,
            Ok(BitcoinTransaction_new(
                   f.version, f.inputs,
                   u32_from_le_bytes(<<b[f.consumed + 1], b[f.consumed + 2],
                                       b[f.consumed + 3], b[f.consumed + 4]>>)),
               f.consumed + 4))

\* The lock time defaulted to 0 when the buffer ends before it.
TxParseLockTime_DefaultFill(b, f) ==
    IF Len(b) < f.consumed + 4
      THEN TxReturn(f, Ok(BitcoinTransaction_new(f.version, f.inputs, <<0, 0>>), Len(b)))
    ELSE TxReturn(f,
            Ok(BitcoinTransaction_new(
                   f.version, f.inputs,
                   u32_from_le_bytes(<<b[f.consumed + 1], b[f.consumed + 2],
                                       b[f.consumed + 3], b[f.consumed + 4]>>)),
               f.consumed + 4))

\* Parse lock time.
TxParseLockTime(b, f) ==
    IF Len(b) < f.consumed + 4 THEN TxReturn(f, Err(InsufficientBytes))
    ELSE TxReturn(f,
            Ok(BitcoinTransaction_new(
                   f.version, f.inputs,
                   u32_from_le_bytes(<<b[f.consumed + 1], b[f.consumed + 2],
                                       b[f.consumed + 3], b[f.consumed + 4]>>)),
               f.consumed + 4))

TxStep(b, f) ==
    CASE f.pc = "version" -> TxParseVersion(b, f)
      [] f.pc = "count" -> TxParseCount(b, f)
      [] f.pc = "inputs" -> TxParseInput(b, f)
      [] f.pc = "lock_time" -> TxParseLockTime(b, f)

RECURSIVE TxRun(_, _)
TxRun(b, f) == IF f.pc = "return" THEN f.ret ELSE TxRun(b, TxStep(b, f))

BitcoinTransaction_from_bytes(b) == TxRun(b, TxEntry)

\* ------------------------------------------------------------ the codecs

Kinds == {"CompactSize", "OutPoint", "Script", "TransactionInput", "BitcoinTransaction"}

ToBytes(k, v) ==
    CASE k = "CompactSize" -> CompactSize_to_bytes(v)
      [] k = "OutPoint" -> OutPoint_to_bytes(v)
      [] k = "Script" -> Script_to_bytes(v)
      [] k = "TransactionInput" -> TransactionInput_to_bytes(v)
      [] k = "BitcoinTransaction" -> BitcoinTransaction_to_bytes(v)

FromBytes(k, b) ==
    CASE k = "CompactSize" -> CompactSize_from_bytes(b)
      [] k = "OutPoint" -> OutPoint_from_bytes(b)
      [] k = "Script" -> Script_from_bytes(b)
      [] k = "TransactionInput" -> TransactionInput_from_bytes(b)
      [] k = "BitcoinTransaction" -> BitcoinTransaction_from_bytes(b)

\* ------------------------------------------------------- generated inputs

\* All sequences over S of length at most n.
SeqsUpTo(S, n) == UNION {[1..k -> S] : k \in 0..n}

\* The values of a u32 field (bytes ff ff ff ff, and 01 02 03 04 on the wire).
U32Choices == {<<0, 0>>, <<65535, 65535>>, <<513, 1027>>}

\* u64 values on both sides of every boundary of the encoding.
LowLimbChoices == {0, 1, 252, 253, 254, 255, 256, 65535}
HighLimbChoices ==
    { <<0, 0, 0>>, <<1, 0, 0>>, <<65535, 0, 0>>, <<0, 1, 0>>,
      <<0, 0, 32768>>, <<65535, 65535, 65535>> }
U64Choices == {<<l>> \o h : l \in LowLimbChoices, h \in HighLimbChoices}

TxidChoices ==
    { [i \in 1..TxidLen |-> 0], [i \in 1..TxidLen |-> 255], [i \in 1..TxidLen |-> i] }

\* Script payloads: the short ones, and the lengths around the 0xFD branch.
MaxScriptLen == 2
ScriptLens == (0..MaxScriptLen) \cup {252, 253}
ScriptBytes(n) == [i \in 1..n |-> (7 * i) % 256]

CompactSizeValues == {CompactSize_new(v) : v \in U64Choices}
OutPointValues == {OutPoint_new(t, v) : t \in TxidChoices, v \in U32Choices}
ScriptValues == {Script_new(ScriptBytes(n)) : n \in ScriptLens}
TransactionInputValues ==
    { TransactionInput_new(OutPoint_new(t, <<513, 1027>>), s, q) :
        t \in TxidChoices, s \in {Script_new(ScriptBytes(n)) : n \in {0, 2, 253}},
        q \in {<<65535, 65535>>} }

\* The inputs transactions are built from: distinct txids, an empty and a
\* non-empty script_sig.
TxInputChoices ==
    { TransactionInput_new(OutPoint_new([i \in 1..TxidLen |-> 255], <<65535, 65535>>),
                           Script_new(<<>>), <<65535, 65535>>),
      TransactionInput_new(OutPoint_new([i \in 1..TxidLen |-> i], <<1, 0>>),
                           Script_new(ScriptBytes(2)), <<0, 0>>) }
\* A transaction with an input whose script_sig takes the 0xFD length prefix.
LongScriptTransaction ==
    BitcoinTransaction_new(
        <<513, 1027>>,
        << TransactionInput_new(OutPoint_new([i \in 1..TxidLen |-> 255], <<65535, 65535>>),
                                Script_new(<<>>), <<65535, 65535>>),
           TransactionInput_new(OutPoint_new([i \in 1..TxidLen |-> 0], <<513, 1027>>),
                                Script_new(ScriptBytes(253)), <<65535, 0>>) >>,
        <<0, 0>>)
BitcoinTransactionValues ==
    { BitcoinTransaction_new(v, ins, l) :
        v \in {<<1, 0>>},
        ins \in SeqsUpTo(TxInputChoices, MaxInputs),
        l \in {<<513, 1027>>} }
      \cup {LongScriptTransaction}

Values(k) ==
    CASE k = "CompactSize" -> CompactSizeValues
      [] k = "OutPoint" -> OutPointValues
      [] k = "Script" -> ScriptValues
      [] k = "TransactionInput" -> TransactionInputValues
      [] k = "BitcoinTransaction" -> BitcoinTransactionValues

NoValue == [none |-> TRUE]

\* Raw buffers: a first byte from each branch of the CompactSize match, then
\* payload bytes.
FirstBytes == {0, 1, 2, 252, 253, 254, 255}
PayloadBytes == {0, 255}
RawBuffers ==
    {<<>>} \cup {<<f>> \o p : f \in FirstBytes, p \in SeqsUpTo(PayloadBytes, MaxRawLen - 1)}
RawKinds == {"CompactSize", "Script"}

\* Trailing bytes appended to an encoding.
Tails == SeqsUpTo(PayloadBytes, MaxTail) \ {<<>>}

\* Runs of bytes written over one byte of an encoding: other counts and
\* lengths, over-long CompactSize forms, and lengths close to 2^64.
Fragments ==
    { <<0>>, <<2>>, <<253, 1, 0>>, <<254, 0, 0, 1, 0>>,
      <<255, 255, 255, 255, 255, 255, 255, 255, 255>>,
      <<255, 247, 255, 255, 255, 255, 255, 255, 255>> }

\* ------------------------------------------------------------------ actions

Init ==
    /\ overflow_checks \in BOOLEAN
    /\ kind \in Kinds
    /\ \/ /\ value \in Values(kind)
          /\ bytes = <<>>
          /\ phase = "value"
       \/ /\ kind \in RawKinds
          /\ value = NoValue
          /\ bytes \in RawBuffers
          /\ phase = "buffer"
    /\ encoded = <<>>
    /\ frame = TxIdle
    /\ result = NoResult

\* value.to_bytes(): the buffer starts as the encoding.
Encode ==
    /\ phase = "value"
    /\ encoded' = ToBytes(kind, value)
    /\ bytes' = encoded'
    /\ phase' = "buffer"
    /\ UNCHANGED <<overflow_checks, kind, value, frame, result>>

Editable == phase = "buffer" /\ value # NoValue

\* The caller holds only the first n bytes of the encoding.
Truncate ==
    /\ Editable
    /\ \E n \in 0..(Len(bytes) - 1) : bytes' = SubSeq(bytes, 1, n)
    /\ phase' = "edited"
    /\ UNCHANGED <<overflow_checks, kind, value, encoded, frame, result>>

\* The encoding is followed by more of the stream.
Extend ==
    /\ Editable
    /\ \E tail \in Tails : bytes' = bytes \o tail
    /\ phase' = "edited"
    /\ UNCHANGED <<overflow_checks, kind, value, encoded, frame, result>>

\* The byte at position p is replaced by a fragment; the rest of the encoding
\* follows it, or the buffer ends with the fragment.
Splice ==
    /\ Editable
    /\ \E p \in 1..Len(bytes), frag \in Fragments, cut \in BOOLEAN :
          bytes' = SubSeq(bytes, 1, p - 1) \o frag
                      \o (IF cut THEN <<>> ELSE SubSeq(bytes, p + 1, Len(bytes)))
    /\ phase' = "edited"
    /\ UNCHANGED <<overflow_checks, kind, value, encoded, frame, result>>

\* T::from_bytes(&bytes) of the types parsed without a loop.
Decode ==
    /\ phase \in {"buffer", "edited"}
    /\ kind # "BitcoinTransaction"
    /\ result' = FromBytes(kind, bytes)
    /\ phase' = "done"
    /\ UNCHANGED <<overflow_checks, kind, value, encoded, bytes, frame>>

\* BitcoinTransaction::from_bytes(&bytes) is entered.
TxCall ==
    /\ phase \in {"buffer", "edited"}
    /\ kind = "BitcoinTransaction"
    /\ frame' = TxEntry
    /\ phase' = "parsing"
    /\ UNCHANGED <<overflow_checks, kind, value, encoded, bytes, result>>

\* The steps of BitcoinTransaction::from_bytes, one per program point; the
\* call is over when a step returns.
TxVersion ==
    /\ phase = "parsing"
    /\ frame.pc = "version"
    /\ frame' = TxParseVersion(bytes, frame)
    /\ result' = frame'.ret
    /\ phase' = IF frame'.pc = "return" THEN "done" ELSE phase
    /\ UNCHANGED <<overflow_checks, kind, value, encoded, bytes>>

TxCount ==
    /\ phase = "parsing"
    /\ frame.pc = "count"
    /\ frame' = TxParseCount(bytes, frame)
    /\ result' = frame'.ret
    /\ phase' = IF frame'.pc = "return" THEN "done" ELSE phase
    /\ UNCHANGED <<overflow_checks, kind, value, encoded, bytes>>

TxInput ==
    /\ phase = "parsing"
    /\ frame.pc = "inputs"
    /\ frame' = TxParseInput(bytes, frame)
    /\ result' = frame'.ret
    /\ phase' = IF frame'.pc = "return" THEN "done" ELSE phase
    /\ UNCHANGED <<overflow_checks, kind, value, encoded, bytes>>

TxLockTime ==
    /\ phase = "parsing"
    /\ frame.pc = "lock_time"
    /\ frame' = TxParseLockTime(bytes, frame)
    /\ result' = frame'.ret
    /\ phase' = IF frame'.pc = "return" THEN "done" ELSE phase
    /\ UNCHANGED <<overflow_checks, kind, value, encoded, bytes>>

Next ==
    \/ Encode
    \/ Truncate
    \/ Extend
    \/ Splice
    \/ Decode
    \/ TxCall
    \/ TxVersion
    \/ TxCount
    \/ TxInput
    \/ TxLockTime

Spec == Init /\ [][Next]_vars

\* ------------------------------------------------------------ properties

Done == phase = "done"

IsPrefix(p, b) == Len(p) <= Len(b) /\ SubSeq(b, 1, Len(p)) = p
IsStrictPrefix(p, b) == Len(p) < Len(b) /\ IsPrefix(p, b)

\* Byte k (0 the least significant) of a number given by its 16-bit limbs.
ByteOf(x, k) ==
    IF k % 2 = 0 THEN x[(k \div 2) + 1] % 256 ELSE x[(k \div 2) + 1] \div 256

\* C1: decoding the encoding of a value of any of the five types returns that
\* value and the length of the encoding.
C1_RoundTrip ==
    (Done /\ value # NoValue /\ bytes = encoded) => result = Ok(value, Len(encoded))

C1_Witness ==
    /\ Done
    /\ kind = "BitcoinTransaction"
    /\ bytes = encoded
    /\ Len(value.inputs) = 2
    /\ value.inputs[1] # value.inputs[2]
    /\ result.tag = "Ok"
    /\ result.consumed = Len(encoded)

\* C2: CompactSize::to_bytes emits the single byte v for v <= 252, 0xFD and v
\* in 2 little-endian bytes for v <= 65535, 0xFE and v in 4 little-endian bytes
\* for v <= 4294967295, and 0xFF and v in 8 little-endian bytes above.
C2_MinimalEncoding ==
    (kind = "CompactSize" /\ phase # "value" /\ value # NoValue) =>
        LET v == value.value IN
        /\ (v[4] = 0 /\ v[3] = 0 /\ v[2] = 0 /\ v[1] <= 252) =>
              encoded = <<v[1]>>
        /\ (v[4] = 0 /\ v[3] = 0 /\ v[2] = 0 /\ v[1] >= 253) =>
              encoded = <<253, ByteOf(v, 0), ByteOf(v, 1)>>
        /\ (v[4] = 0 /\ v[3] = 0 /\ v[2] >= 1) =>
              encoded = <<254, ByteOf(v, 0), ByteOf(v, 1), ByteOf(v, 2), ByteOf(v, 3)>>
        /\ (v[4] >= 1 \/ v[3] >= 1) =>
              encoded = <<255>> \o [k \in 1..8 |-> ByteOf(v, k - 1)]
        /\ v = <<252, 0, 0, 0>> => encoded = <<252>>
        /\ v = <<253, 0, 0, 0>> => encoded = <<253, 253, 0>>
        /\ v = <<65535, 0, 0, 0>> => encoded = <<253, 255, 255>>
        /\ v = <<0, 1, 0, 0>> => encoded = <<254, 0, 0, 1, 0>>
        /\ v = <<65535, 65535, 0, 0>> => encoded = <<254, 255, 255, 255, 255>>
        /\ v = <<0, 0, 1, 0>> => encoded = <<255, 0, 0, 0, 0, 1, 0, 0, 0>>

C2_Witness ==
    /\ kind = "CompactSize"
    /\ value = CompactSize_new(<<0, 0, 1, 0>>)
    /\ encoded = <<255, 0, 0, 0, 0, 1, 0, 0, 0>>

\* The payload width the first byte of a CompactSize selects.
PayloadWidth(first) ==
    CASE first <= 252 -> 0
      [] first = 253 -> 2
      [] first = 254 -> 4
      [] first = 255 -> 8

\* The little-endian number in the w bytes after offset off of b, as a u64.
LittleEndianAt(b, off, w) ==
    [k \in 1..4 |->
        (IF 2 * k - 1 <= w THEN b[off + 2 * k - 1] ELSE 0)
          + 256 * (IF 2 * k <= w THEN b[off + 2 * k] ELSE 0)]

\* C3: CompactSize::from_bytes succeeds exactly when the buffer holds the
\* first byte and the payload it selects, then returning the payload's
\* little-endian value (or the first byte) and consumed = 1 + payload width,
\* over-long encodings included; otherwise it returns InsufficientBytes.
C3_CompactSizeDecode ==
    (Done /\ kind = "CompactSize") =>
        IF Len(bytes) >= 1 /\ Len(bytes) >= 1 + PayloadWidth(bytes[1])
          THEN LET w == PayloadWidth(bytes[1]) IN
               /\ result.tag = "Ok"
               /\ result.consumed = 1 + w
               /\ result.consumed \in {1, 3, 5, 9}
               /\ result.value.value =
                     IF w = 0 THEN <<bytes[1], 0, 0, 0>> ELSE LittleEndianAt(bytes, 1, w)
          ELSE result = Err(InsufficientBytes)

\* An over-long encoding of a small value is accepted.
C3_Witness ==
    /\ Done
    /\ kind = "CompactSize"
    /\ Len(bytes) >= 9
    /\ bytes[1] = 255
    /\ result = Ok(CompactSize_new(<<0, 0, 0, 0>>), 9)

\* C4: decoding a strict prefix of the encoding of an OutPoint, a Script, a
\* TransactionInput or a BitcoinTransaction returns InsufficientBytes.
C4_Truncation ==
    (Done /\ kind # "CompactSize" /\ value # NoValue /\ IsStrictPrefix(bytes, encoded)) =>
        result = Err(InsufficientBytes)

\* A transaction cut inside the script of its second input.
C4_Witness ==
    /\ Done
    /\ kind = "BitcoinTransaction"
    /\ IsStrictPrefix(bytes, encoded)
    /\ frame.i = 1
    /\ Len(bytes) = frame.consumed + OutPointLen + 2
    /\ result = Err(InsufficientBytes)

\* The u64 a CompactSize prefix at index p (from 1) of b declares, and the
\* number of bytes the prefix takes.
PrefixWidth(b, p) == 1 + PayloadWidth(b[p])
PrefixValue(b, p) ==
    IF PayloadWidth(b[p]) = 0 THEN <<b[p], 0, 0, 0>>
    ELSE LittleEndianAt(b, p, PayloadWidth(b[p]))
PrefixPresent(b, p) == Len(b) >= p /\ Len(b) >= p - 1 + PrefixWidth(b, p)

\* The u32 in the 4 bytes after offset off of b.
U32At(b, off) == <<b[off + 1] + 256 * b[off + 2], b[off + 3] + 256 * b[off + 4]>>

\* C5: once the length prefix (width w, declared length L) is decoded,
\* Script::from_bytes returns InsufficientBytes when the buffer holds fewer
\* than w + L bytes and otherwise the L bytes after the prefix with consumed
\* = w + L, for every L up to 2^64-1.  Len(bytes) < w + L is stated without
\* the sum, as Len(bytes) - w < L.
C5_ScriptLength ==
    (Done /\ kind = "Script" /\ PrefixPresent(bytes, 1)) =>
        LET w == PrefixWidth(bytes, 1)
            L == PrefixValue(bytes, 1)
        IN  IF U64Less(U64FromNat(Len(bytes) - w), L)
              THEN result = Err(InsufficientBytes)
              ELSE result = Ok(Script_new(SubSeq(bytes, w + 1, w + U64ToNat(L))),
                               w + U64ToNat(L))

\* What remains of C5 on the code: the same, for the lengths L whose sum with
\* w stays below 2^64.
C5_ScriptLengthBelowOverflow ==
    (Done /\ kind = "Script" /\ PrefixPresent(bytes, 1)
          /\ ~usize_add(U64FromNat(PrefixWidth(bytes, 1)), PrefixValue(bytes, 1)).overflow)
      => C5_ScriptLength

\* C6: a transaction's encoding followed by more bytes decodes to the
\* transaction with consumed the encoding's length, less than the buffer's;
\* and a successful from_bytes of any type consumes at most the buffer and
\* returns the same whatever follows the consumed bytes.
C6_TrailingBytes ==
    Done =>
      /\ (kind = "BitcoinTransaction" /\ value # NoValue /\ IsStrictPrefix(encoded, bytes)) =>
            /\ result = Ok(value, Len(encoded))
            /\ result.consumed < Len(bytes)
      /\ result.tag = "Ok" =>
            /\ result.consumed <= Len(bytes)
            /\ \A t \in Tails \cup {<<>>} :
                  FromBytes(kind, SubSeq(bytes, 1, result.consumed) \o t) = result

C6_Witness ==
    /\ Done
    /\ kind = "BitcoinTransaction"
    /\ IsStrictPrefix(encoded, bytes)
    /\ Len(value.inputs) = 2
    /\ result.tag = "Ok"
    /\ result.consumed + MaxTail = Len(bytes)

\* Where parsing the inputs ins one after the other from offset off of b ends,
\* or -1 when one of them is not what the buffer holds there.
RECURSIVE InputsEnd(_, _, _)
InputsEnd(b, off, ins) ==
    IF ins = <<>> THEN off
    ELSE LET r == TransactionInput_from_bytes(SliceFrom(b, off)) IN
         IF r.tag = "Ok" /\ r.value = Head(ins)
           THEN InputsEnd(b, off + r.consumed, Tail(ins))
           ELSE -1

\* C7: a successful BitcoinTransaction::from_bytes returns as many inputs as
\* the decoded count, in buffer order, with consumed = 4 + count width + the
\* inputs' consumed lengths + 4 (count 0: no input, version + count +
\* lock_time bytes); when an input iteration fails the call ends with that
\* failure and no transaction.
C7_InputCount ==
    (Done /\ kind = "BitcoinTransaction") =>
      /\ result.tag = "Ok" =>
            LET w == PrefixWidth(bytes, 5)
                count == PrefixValue(bytes, 5)
                ins == result.value.inputs
            IN  /\ U64FromNat(Len(ins)) = count
                /\ InputsEnd(bytes, 4 + w, ins) >= 0
                /\ result.consumed = InputsEnd(bytes, 4 + w, ins) + 4
                /\ count = <<0, 0, 0, 0>> =>
                      ins = <<>> /\ result.consumed = 4 + w + 4
      /\ U64Less(U64FromNat(frame.i), frame.input_count.value) =>
            /\ result.tag # "Ok"
            /\ result = TransactionInput_from_bytes(SliceFrom(bytes, frame.consumed))

C7_Witness ==
    /\ Done
    /\ kind = "BitcoinTransaction"
    /\ result.tag = "Ok"
    /\ Len(bytes) > 5
    /\ bytes[5] = 2
    /\ Len(result.value.inputs) = 2
    /\ result.consumed < Len(bytes)

\* C8: TransactionInput::from_bytes reads the OutPoint from bytes 0..36, the
\* Script from offset 36 and the sequence right after the script, with
\* consumed = 36 + script consumed + 4; when one of the three cannot be read
\* it returns InsufficientBytes.
C8_InputLayout ==
    (Done /\ kind = "TransactionInput") =>
        LET s == IF Len(bytes) >= 36 THEN Script_from_bytes(SliceFrom(bytes, 36))
                 ELSE NoResult
        IN  IF s.tag = "Ok" /\ Len(bytes) >= 36 + s.consumed + 4
              THEN result =
                     Ok([ previous_output |->
                            [txid |-> SubSeq(bytes, 1, 32), vout |-> U32At(bytes, 32)],
                          script_sig |-> s.value,
                          sequence |-> U32At(bytes, 36 + s.consumed) ],
                        36 + s.consumed + 4)
              ELSE result = Err(InsufficientBytes)

\* What remains of C8 on the code: the same, unless the Script parse panics.
C8_InputLayoutUnlessScriptPanics ==
    (Done /\ kind = "TransactionInput" /\ result.tag # "Panic") => C8_InputLayout

\* C9: every successful input iteration advances the cursor by at least 41
\* bytes, so a buffer of n bytes allows at most n \div 41 of them, and a
\* declared count above that ends in InsufficientBytes.
C9_LoopBound ==
    (kind = "BitcoinTransaction" /\ phase \in {"parsing", "done"}) =>
      /\ 41 * frame.i <= frame.consumed
      /\ frame.consumed <= Len(bytes)
      /\ frame.i <= Len(bytes) \div 41
      /\ (Done /\ PrefixPresent(bytes, 5) /\ Len(bytes) >= 4
               /\ U64Less(U64FromNat(Len(bytes) \div 41), PrefixValue(bytes, 5))) =>
            result = Err(InsufficientBytes)

\* What remains of C9 on the code: the bound on the iterations, and that a
\* declared count above it never yields a transaction.
C9_LoopBoundNoTransaction ==
    (kind = "BitcoinTransaction" /\ phase \in {"parsing", "done"}) =>
      /\ 41 * frame.i <= frame.consumed
      /\ frame.consumed <= Len(bytes)
      /\ frame.i <= Len(bytes) \div 41
      /\ (Done /\ PrefixPresent(bytes, 5) /\ Len(bytes) >= 4
               /\ U64Less(U64FromNat(Len(bytes) \div 41), PrefixValue(bytes, 5))) =>
            result \in {Err(InsufficientBytes), Panic("attempt to add with overflow"),
                        Panic("slice index starts after its end")}

\* Whether the CompactSize prefix at index p of b is the shortest one for the
\* value it declares.
MinimalAt(b, p) ==
    CASE b[p] <= 252 -> TRUE
      [] b[p] = 253 -> b[p + 2] > 0 \/ b[p + 1] >= 253
      [] b[p] = 254 -> b[p + 3] > 0 \/ b[p + 4] > 0
      [] b[p] = 255 -> b[p + 5] > 0 \/ b[p + 6] > 0 \/ b[p + 7] > 0 \/ b[p + 8] > 0

\* Whether the script length prefixes of the inputs ins, laid out from offset
\* off of b, are all minimal.
RECURSIVE ScriptPrefixesMinimal(_, _, _)
ScriptPrefixesMinimal(b, off, ins) ==
    IF ins = <<>> THEN TRUE
    ELSE /\ MinimalAt(b, off + 37)
         /\ ScriptPrefixesMinimal(
                b,
                off + 36 + PrefixWidth(b, off + 37) + Len(Head(ins).script_sig.bytes) + 4,
                Tail(ins))

AllPrefixesMinimal(k, b, v) ==
    CASE k = "BitcoinTransaction" ->
            MinimalAt(b, 5) /\ ScriptPrefixesMinimal(b, 4 + PrefixWidth(b, 5), v.inputs)
      [] OTHER -> MinimalAt(b, 1)

\* C10: when from_bytes of a BitcoinTransaction, a CompactSize or a Script
\* returns (v, n), to_bytes(v) is at most n bytes long, decodes back to v and
\* its own length, and equals the n consumed bytes exactly when every
\* CompactSize prefix among them is minimal.
C10_Canonicalises ==
    (Done /\ kind \in {"BitcoinTransaction", "CompactSize", "Script"} /\ result.tag = "Ok") =>
        LET e == ToBytes(kind, result.value)
            n == result.consumed
        IN  /\ Len(e) <= n
            /\ FromBytes(kind, e) = Ok(result.value, Len(e))
            /\ (e = SubSeq(bytes, 1, n)) <=> AllPrefixesMinimal(kind, bytes, result.value)

\* A transaction whose count was written in the 0xFD form.
C10_Witness ==
    /\ Done
    /\ kind = "BitcoinTransaction"
    /\ result.tag = "Ok"
    /\ bytes[5] = 253
    /\ Len(result.value.inputs) = 1
    /\ Len(ToBytes(kind, result.value)) < result.consumed

====
